---- MODULE Spec2Model ----
(***************************************************************************)
(* A model of the `_ast` bridge (vm/src/stdlib/ast.rs) and of the dict     *)
(* object that backs attribute storage (vm/src/obj/objdict.rs).            *)
(*                                                                         *)
(* Typed side: a type is a sequence of names, the wrappers Vec/Option/Box  *)
(* followed by one base type.  Dynamic side: an object is a record         *)
(*   [cls |-> class name, payload |-> Rust payload type, v |-> value].     *)
(* Arbitrary-precision integers are two-limb numbers hi * 2^16 + lo so     *)
(* that values wider than 32 bits exist in the model.                      *)
(***************************************************************************)
EXTENDS Integers, Sequences, FiniteSets, TLC

VARIABLES pc, inTy, inVal, obj, res,
          cPc, cObject, cOutcome, cResult, backendCalls,
          entries, borrowFlag, stack, REPR_GUARDS, root, output, panicked

codecVars   == <<pc, inTy, inVal, obj, res>>
compileVars == <<cPc, cObject, cOutcome, cResult, backendCalls>>
dictVars    == <<entries, borrowFlag, stack, REPR_GUARDS, root, output, panicked>>
vars        == <<codecVars, compileVars, dictVars>>

(* ------------------------------ bounds --------------------------------- *)
MaxLen   == 2     \* longest sequence / tuple / list that is enumerated
MaxDepth == 2     \* deepest nesting of Vec / Option / Box wrappers
NDicts   == 2     \* dict objects on the heap
MaxStack == 4     \* deepest nesting of calls in progress

(* ------------------------------- shapes -------------------------------- *)
\* Records are laid out tag first: a constant is [k, v], an object is
\* [cls, payload, value], a result is [ok, val | err, log], an optional is
\* [some, val], a typed node is [kind, location, f].
Tagged(k, v) == [k |-> k, v |-> v]
Object(cls, payload, value) == [cls |-> cls, payload |-> payload, value |-> value]
Err(e, l)  == [ok |-> FALSE, err |-> e, log |-> l]
Absent     == [some |-> FALSE]
Ok(r, l)   == [ok |-> TRUE,  val |-> r, log |-> l]
Present(x) == [some |-> TRUE, val |-> x]
TypedNode(kind, location, f) == [kind |-> kind, location |-> location, f |-> f]

(* --------------------------- big integers ------------------------------ *)
LimbBase == 2^16
I32Bits  == 32
U8Bits   == 8

Big(h, l) == [hi |-> h, lo |-> l]
is_zero(b) == b.hi = 0 /\ b.lo = 0
is_negative(b) == b.hi < 0
\* 2^(I32Bits-1) / LimbBase, computed without leaving 32-bit arithmetic
I32HiLimit == (2^(I32Bits - 2)) \div (LimbBase \div 2)
\* the value fits a signed integer of I32Bits bits
fits_i32(b) == b.hi >= -I32HiLimit /\ b.hi <= I32HiLimit - 1
\* i32::to_u8: Some(byte) when 0 <= value < 2^U8Bits, else None
to_u8(b) == IF b.hi = 0 /\ b.lo < 2^U8Bits
            THEN [some |-> TRUE, val |-> b.lo] ELSE [some |-> FALSE]

(* ------------------------------ results -------------------------------- *)

\* an exception: its class and the words of its message
TypeError(msg)      == [exc |-> "TypeError",      msg |-> msg]
ValueError(msg)     == [exc |-> "ValueError",     msg |-> msg]
OverflowError(msg)  == [exc |-> "OverflowError",  msg |-> msg]
AttributeError(msg) == [exc |-> "AttributeError", msg |-> msg]

(* -------------------------- object constructors ------------------------ *)
new_int(b)     == Object("int", "PyInt", b)
new_bool(b)    == Object("bool", "PyInt", IF b THEN Big(0, 1) ELSE Big(0, 0))
new_str(s)     == Object("str", "PyStr", s)
new_bytes(b)   == Object("bytes", "PyBytes", b)
new_float(f)   == Object("float", "PyFloat", f)
new_complex(re, im) ==
                  Object("complex", "PyComplex", <<re, im>>)
new_tuple(es)  == Object("tuple", "PyTuple", es)
new_list(es)   == Object("list", "PyList", es)
none           == Object("NoneType", "PyNone", <<>>)
ellipsis       == Object("ellipsis", "PyEllipsis", <<>>)
is_none(o)     == o.payload = "PyNone"

(* ------------------------- attribute stores ---------------------------- *)
\* An attribute store is a sequence of <<name, value>> pairs, in insertion order.
RECURSIVE attrs_index(_, _, _)
attrs_index(d, name, i) ==
    IF i > Len(d) THEN 0
    ELSE IF d[i][1] = name THEN i ELSE attrs_index(d, name, i + 1)

attrs_set_item(d, name, value) ==
    LET i == attrs_index(d, name, 1)
    IN  IF i = 0 THEN Append(d, <<name, value>>)
        ELSE [d EXCEPT ![i] = <<name, value>>]

new_node(cls, d) == Object(cls, "AstNode", d)
has_dict(o) == o.payload = "AstNode"

\* vm.get_attribute: the attribute of that name, or an AttributeError that
\* names the object's class and the attribute.
get_attribute(o, name) ==
    LET i == IF has_dict(o) THEN attrs_index(o.value, name, 1) ELSE 0
    IN  IF i = 0 THEN Err(AttributeError(<<o.cls, "object has no attribute", name>>), <<>>)
        ELSE Ok(o.value[i][2], <<>>)

get_node_field(o, field, typ) == get_attribute(o, field)

node_add_location(node, location) ==
    new_node(node.cls,
             attrs_set_item(attrs_set_item(node.value, "lineno", new_int(Big(0, location.row))),
                            "col_offset", new_int(Big(0, location.column))))

(* ----------------------------- node kinds ------------------------------ *)
NodeKinds == {"Constant", "FormattedValue", "Module"}
Field(name, ty) == [name |-> name, ty |-> ty]
\* the declared fields of each kind, in declaration order
Fields(kind) ==
    CASE kind = "Constant" ->
            <<Field("value", <<"Constant">>), Field("kind", <<"Option", "String">>)>>
      [] kind = "FormattedValue" ->
            <<Field("value", <<"Box", "Node_Constant">>),
              Field("conversion", <<"ConversionFlag">>)>>
      [] kind = "Module" ->
            <<Field("body", <<"Vec", "Node_FormattedValue">>)>>
Located(kind) == kind \in {"Constant", "FormattedValue"}
DefaultLocation == [row |-> 0, column |-> 0]
KindOf(base) ==
    CASE base = "Node_Constant" -> "Constant"
      [] base = "Node_FormattedValue" -> "FormattedValue"
      [] base = "Node_Module" -> "Module"
IsNodeType(base) == base \in {"Node_Constant", "Node_FormattedValue", "Node_Module"}

(* --------------------------- conversion flag --------------------------- *)
ConversionFlags == {"Str", "Ascii", "Repr"}
\* `self as u8`: the discriminant of the variant
ConversionFlag_as_u8(f) ==
    CASE f = "Str" -> 115 [] f = "Ascii" -> 97 [] f = "Repr" -> 114
ConversionFlag_try_from_byte(b) ==
    IF \E f \in ConversionFlags : ConversionFlag_as_u8(f) = b
    THEN [some |-> TRUE, val |-> CHOOSE f \in ConversionFlags : ConversionFlag_as_u8(f) = b]
    ELSE [some |-> FALSE]

(* ------------------------- scalar conversions -------------------------- *)
i32_try_from_object(o) ==
    IF o.payload # "PyInt" THEN Err(TypeError(<<"expected int">>), <<>>)
    ELSE IF ~fits_i32(o.value) THEN Err(OverflowError(<<"int too large for i32">>), <<>>)
    ELSE Ok(o.value, <<>>)

usize_try_from_object(o) ==
    IF o.payload # "PyInt" THEN Err(TypeError(<<"expected int">>), <<>>)
    ELSE IF is_negative(o.value) THEN Err(OverflowError(<<"int out of range for usize">>), <<>>)
    ELSE Ok(o.value, <<>>)

PyStrRef_try_from_object(o) ==
    IF o.payload # "PyStr" THEN Err(TypeError(<<"expected str">>), <<>>)
    ELSE Ok(o.value, <<>>)

\* the elements an object yields through the iteration protocol
Iterate(o) ==
    CASE o.payload \in {"PyList", "PyTuple"} -> Ok(o.value, <<>>)
      [] o.payload = "PyStr"   -> Ok([i \in 1..Len(o.value) |-> new_str(<<o.value[i]>>)], <<>>)
      [] o.payload = "PyBytes" -> Ok([i \in 1..Len(o.value) |-> new_int(Big(0, o.value[i]))], <<>>)
      [] OTHER -> Err(TypeError(<<o.cls, "object is not iterable">>), <<>>)

(* ------------------------------ to-dynamic ----------------------------- *)
\* the Bool arm of Constant::ast_to_object; the mutant emits a plain integer
Constant_Bool_as_int(b) == new_int(Big(0, IF b THEN 1 ELSE 0))
Constant_Bool_to_object(b) == new_bool(b)

RECURSIVE Constant_ast_to_object(_)
Constant_ast_to_object(c) ==
    CASE c.k = "None"     -> none
      [] c.k = "Bool"     -> Constant_Bool_to_object(c.v)
      [] c.k = "Str"      -> new_str(c.v)
      [] c.k = "Bytes"    -> new_bytes(c.v)
      [] c.k = "Int"      -> new_int(c.v)
      [] c.k = "Tuple"    ->
            new_tuple([i \in 1..Len(c.v) |-> Constant_ast_to_object(c.v[i])])
      [] c.k = "Float"    -> new_float(c.v)
      [] c.k = "Complex"  -> new_complex(c.real, c.imag)
      [] c.k = "Ellipsis" -> ellipsis

bool_ast_to_object(b) == new_int(Big(0, IF b THEN 1 ELSE 0))

ConversionFlag_ast_to_object(f) == new_int(Big(0, ConversionFlag_as_u8(f)))

RECURSIVE ast_to_object(_, _), Node_ast_to_object(_, _), fields_to_attrs(_, _, _, _)

\* the generated to-dynamic of a node kind: the fields in declaration order,
\* then the location of a located kind
fields_to_attrs(fs, n, i, d) ==
    IF i > Len(fs) THEN d
    ELSE fields_to_attrs(fs, n, i + 1,
             attrs_set_item(d, fs[i].name, ast_to_object(fs[i].ty, n.f[fs[i].name])))

Node_ast_to_object(kind, n) ==
    LET node == new_node(kind, fields_to_attrs(Fields(kind), n, 1, <<>>))
    IN  IF Located(kind) THEN node_add_location(node, n.location) ELSE node

Option_ast_to_object(ty, o) ==
    IF o.some THEN ast_to_object(ty, o.val) ELSE none

Vec_ast_to_object(ty, xs) ==
    new_list([i \in 1..Len(xs) |-> ast_to_object(ty, xs[i])])

Box_ast_to_object(ty, b) == ast_to_object(ty, b.boxed)

ast_to_object(ty, val) ==
    LET h == Head(ty)
    IN  CASE h = "Vec"            -> Vec_ast_to_object(Tail(ty), val)
          [] h = "Box"            -> Box_ast_to_object(Tail(ty), val)
          [] h = "Option"         -> Option_ast_to_object(Tail(ty), val)
          [] h = "String"         -> new_str(val)
          [] h = "usize"          -> new_int(val)
          [] h = "bool"           -> bool_ast_to_object(val)
          [] h = "Constant"       -> Constant_ast_to_object(val)
          [] h = "ConversionFlag" -> ConversionFlag_ast_to_object(val)
          [] IsNodeType(h)        -> Node_ast_to_object(KindOf(h), val)

(* ----------------------------- from-dynamic ---------------------------- *)
\* Every result carries `log`, the sequence of <<type, object>> pairs the
\* codecs were invoked on, in call order.
RECURSIVE ast_from_object(_, _), try_collect(_, _), try_collect_all(_, _),
          Constant_ast_from_object(_), fields_from_attrs(_, _, _, _, _)

\* mutant: every element is converted and the last error is reported
try_collect_all(ty, es) ==
    IF es = <<>> THEN Ok(<<>>, <<>>)
    ELSE LET h == ast_from_object(ty, Head(es))
             t == try_collect_all(ty, Tail(es))
         IN  IF ~t.ok THEN Err(t.err, h.log \o t.log)
             ELSE IF ~h.ok THEN Err(h.err, h.log \o t.log)
             ELSE Ok(<<h.val>> \o t.val, h.log \o t.log)

\* `iter().map(|e| from(e)).collect::<Result<Vec<_>, _>>()`
try_collect(ty, es) ==
    IF es = <<>> THEN Ok(<<>>, <<>>)
    ELSE LET h == ast_from_object(ty, Head(es))
         IN  IF ~h.ok THEN h
             ELSE LET t == try_collect(ty, Tail(es))
                  IN  IF t.ok THEN Ok(<<h.val>> \o t.val, h.log \o t.log)
                      ELSE Err(t.err, h.log \o t.log)

extract_elements_func(ty, o) ==
    LET it == Iterate(o)
    IN  IF it.ok THEN try_collect(ty, it.val) ELSE it

Vec_ast_from_object(ty, o) == extract_elements_func(ty, o)

Box_ast_from_object(ty, o) ==
    LET r == ast_from_object(ty, o)
    IN  IF r.ok THEN Ok([boxed |-> r.val], r.log) ELSE r

\* mutant: the null sentinel is handed to the inner codec like any value
Option_always_some(ty, o) ==
    LET r == ast_from_object(ty, o)
    IN  IF r.ok THEN Ok(Present(r.val), r.log) ELSE r

Option_ast_from_object(ty, o) ==
    IF is_none(o) THEN Ok(Absent, <<>>)
    ELSE LET r == ast_from_object(ty, o)
         IN  IF r.ok THEN Ok(Present(r.val), r.log) ELSE r

String_ast_from_object(o) == PyStrRef_try_from_object(o)

usize_ast_from_object(o) == usize_try_from_object(o)

\* mutant: only the integer 1 is true
bool_only_one(o) ==
    LET r == i32_try_from_object(o)
    IN  IF r.ok THEN Ok(r.val = Big(0, 1), <<>>) ELSE r

bool_ast_from_object(o) ==
    LET r == i32_try_from_object(o)
    IN  IF r.ok THEN Ok(~is_zero(r.val), <<>>) ELSE r

\* mutant: an integer-family object is a Bool when its value is 0 or 1
Constant_int_by_value(o) ==
    IF o.value \in {Big(0, 0), Big(0, 1)} THEN Ok(Tagged("Bool", ~is_zero(o.value)), <<>>)
    ELSE Ok(Tagged("Int", o.value), <<>>)

\* the PyInt arm of Constant::ast_from_object
Constant_from_int(o) ==
    IF o.cls = "bool" THEN Ok(Tagged("Bool", ~is_zero(o.value)), <<>>)
    ELSE Ok(Tagged("Int", o.value), <<>>)

Constant_ast_from_object(o) ==
    CASE o.payload = "PyInt" -> Constant_from_int(o)
      [] o.payload = "PyFloat"   -> Ok([k |-> "Float", v |-> o.value], <<>>)
      [] o.payload = "PyComplex" ->
            Ok([k |-> "Complex", real |-> o.value[1], imag |-> o.value[2]], <<>>)
      [] o.payload = "PyStr"     -> Ok([k |-> "Str", v |-> o.value], <<>>)
      [] o.payload = "PyBytes"   -> Ok([k |-> "Bytes", v |-> o.value], <<>>)
      [] o.payload = "PyTuple"   ->
            LET r == try_collect(<<"Constant">>, o.value)
            IN  IF r.ok THEN Ok([k |-> "Tuple", v |-> r.val], r.log) ELSE r
      [] o.payload = "PyNone"     -> Ok([k |-> "None"], <<>>)
      [] o.payload = "PyEllipsis" -> Ok([k |-> "Ellipsis"], <<>>)
      [] OTHER -> Err(TypeError(<<"unsupported type for constant">>), <<>>)

\* mutant: the integer is truncated to a byte (`as u8`) instead of checked
ConversionFlag_truncating(o) ==
    LET r == i32_try_from_object(o)
    IN  IF ~r.ok THEN r
        ELSE LET f == ConversionFlag_try_from_byte(r.val.lo % (2^U8Bits))
             IN  IF f.some THEN Ok(f.val, <<>>)
                 ELSE Err(ValueError(<<"invalid conversion flag">>), <<>>)

ConversionFlag_ast_from_object(o) ==
    LET r == i32_try_from_object(o)
    IN  IF ~r.ok THEN r
        ELSE LET b == to_u8(r.val)
                 f == IF b.some THEN ConversionFlag_try_from_byte(b.val) ELSE b
             IN  IF f.some THEN Ok(f.val, <<>>)
                 ELSE Err(ValueError(<<"invalid conversion flag">>), <<>>)

\* the generated from-dynamic of a node kind: each declared field is looked
\* up and converted in declaration order; the first failure is returned
fields_from_attrs(kind, fs, o, i, acc) ==
    IF i > Len(fs) THEN acc
    ELSE LET a == get_node_field(o, fs[i].name, kind)
         IN  IF ~a.ok THEN Err(a.err, acc.log)
             ELSE LET r == ast_from_object(fs[i].ty, a.val)
                  IN  IF ~r.ok THEN Err(r.err, acc.log \o r.log)
                      ELSE fields_from_attrs(kind, fs, o, i + 1,
                               Ok(acc.val @@ (fs[i].name :> r.val), acc.log \o r.log))

Node_ast_from_object(kind, o) ==
    LET r == fields_from_attrs(kind, Fields(kind), o, 1, Ok(<<>>, <<>>))
    IN  IF r.ok THEN Ok(TypedNode(kind, DefaultLocation, r.val), r.log)
        ELSE r

ast_from_object(ty, o) ==
    LET h == Head(ty)
        r == CASE h = "Vec"            -> Vec_ast_from_object(Tail(ty), o)
               [] h = "Box"            -> Box_ast_from_object(Tail(ty), o)
               [] h = "Option"         -> Option_ast_from_object(Tail(ty), o)
               [] h = "String"         -> String_ast_from_object(o)
               [] h = "usize"          -> usize_ast_from_object(o)
               [] h = "bool"           -> bool_ast_from_object(o)
               [] h = "Constant"       -> Constant_ast_from_object(o)
               [] h = "ConversionFlag" -> ConversionFlag_ast_from_object(o)
               [] IsNodeType(h)        -> Node_ast_from_object(KindOf(h), o)
    IN  [r EXCEPT !.log = <<<<ty, o>>>> \o @]

(* ------------------------------- inputs -------------------------------- *)
Wrappers  == {"Vec", "Option", "Box"}
BaseTypes == {"String", "usize", "bool", "ConversionFlag", "Constant",
              "Node_Constant", "Node_FormattedValue", "Node_Module"}

RECURSIVE WrapperStacks(_)
WrapperStacks(d) ==
    IF d = 0 THEN {<<>>}
    ELSE LET shorter == WrapperStacks(d - 1)
         IN  shorter \cup {<<w>> \o st : w \in Wrappers, st \in shorter}

TypesUpTo(d) == {st \o <<b>> : st \in WrapperStacks(d), b \in BaseTypes}

CInt(b)   == [k |-> "Int", v |-> b]
CStr(x)   == [k |-> "Str", v |-> x]
CTuple(t) == [k |-> "Tuple", v |-> t]
CNone    == [k |-> "None"]
Wide     == Big(I32HiLimit, 0)          \* 2^(I32Bits-1): one past the largest i32
MinusOne == Big(-1, LimbBase - 1)       \* -1

ConstantSamples ==
    { CNone, [k |-> "Bool", v |-> TRUE], [k |-> "Bool", v |-> FALSE],
      CStr(<<"a">>), [k |-> "Bytes", v |-> <<1>>],
      CInt(Big(0, 0)), CInt(Big(0, 1)), CInt(Wide), CInt(MinusOne),
      [k |-> "Ellipsis"],
      CTuple(<<>>), CTuple(<<CInt(Big(0, 1)), CStr(<<"a">>)>>),
      CTuple(<<CTuple(<<CNone>>), [k |-> "Bool", v |-> TRUE]>>) }

ConstantNode(c, kind, row) ==
    [kind |-> "Constant", location |-> [row |-> row, column |-> 0],
     f |-> [value |-> c, kind |-> kind]]
ConstantNodeSamples ==
    { ConstantNode(CInt(Big(0, 1)), Absent, 1),
      ConstantNode(CNone, Present(<<"u">>), 0) }
FormattedValueNode(n, flag) ==
    [kind |-> "FormattedValue", location |-> [row |-> 1, column |-> 2],
     f |-> [value |-> [boxed |-> n], conversion |-> flag]]
FormattedValueSamples ==
    { FormattedValueNode(ConstantNode(CInt(Big(0, 1)), Absent, 1), "Repr"),
      FormattedValueNode(ConstantNode(CNone, Present(<<"u">>), 0), "Str") }
ModuleSamples ==
    { [kind |-> "Module", location |-> DefaultLocation, f |-> [body |-> b]] :
        b \in UNION {[1..n -> FormattedValueSamples] : n \in 0..2} }

Samples(base) ==
    CASE base = "String"         -> {<<>>, <<"a", "b">>}
      [] base = "usize"          -> {Big(0, 0), Big(0, 7), Big(1, 0)}
      [] base = "bool"           -> BOOLEAN
      [] base = "ConversionFlag" -> ConversionFlags
      [] base = "Constant"       -> ConstantSamples
      [] base = "Node_Constant"  -> ConstantNodeSamples
      [] base = "Node_FormattedValue" -> FormattedValueSamples
      [] base = "Node_Module"    -> ModuleSamples

\* the typed values of a type; a Vec nested inside another Vec holds at most
\* one element
RECURSIVE Values(_, _)
Values(ty, len) ==
    LET h == Head(ty)
    IN  CASE h = "Vec"    -> UNION {[1..n -> Values(Tail(ty), 1)] : n \in 0..len}
          [] h = "Option" -> {Absent} \cup {Present(v) : v \in Values(Tail(ty), len)}
          [] h = "Box"    -> {[boxed |-> v] : v \in Values(Tail(ty), len)}
          [] OTHER        -> Samples(h)

\* dynamic objects handed to from-dynamic directly
HiSamples == {-I32HiLimit - 1, -I32HiLimit, -1, 0, I32HiLimit - 1, I32HiLimit}
LoSamples == {0, 1, 96, 97, 98, 113, 114, 115, 116, 255, 256, 256 + 97, LimbBase - 1}
IntSamples == {Big(h, l) : h \in HiSamples, l \in LoSamples}
IntObjects ==
    {Object(c, "PyInt", b) : c \in {"int", "IntEnum"}, b \in IntSamples}
      \cup {new_bool(TRUE), new_bool(FALSE)}
AtomObjects ==
    { none, ellipsis, new_float("1.5"), new_complex("1.5", "0.0"),
      new_str(<<"a">>), new_bytes(<<1>>),
      Object("dict", "PyDict", <<>>),
      Object("object", "PyBaseObject", <<>>) }
ElementObjects ==
    { new_int(Big(0, 97)), new_int(MinusOne), new_int(Wide), new_bool(TRUE),
      new_str(<<"a">>), none, new_list(<<>>) }
FlatContainers ==
    UNION { {new_list(es), new_tuple(es)} :
              es \in UNION {[1..n -> ElementObjects] : n \in 0..MaxLen} }
NestedTuples ==
    { new_tuple(<<new_tuple(<<a, b>>), c>>) :
        a \in {none, new_list(<<>>)}, b \in {none, new_list(<<>>)},
        c \in {new_int(Big(0, 1)), new_list(<<>>)} }

RemoveAt(sq, i) == [j \in 1..(Len(sq) - 1) |-> IF j < i THEN sq[j] ELSE sq[j + 1]]
\* node objects as to-dynamic builds them, and those with any one attribute
\* removed, under their own class or re-classed as a plain AST object
NodeObjects ==
    LET whole == {Node_ast_to_object(n.kind, n) :
                     n \in ConstantNodeSamples \cup FormattedValueSamples \cup ModuleSamples}
        cut(o) == {new_node(c, RemoveAt(o.value, i)) : i \in 1..Len(o.value), c \in {"AST", o.cls}}
        inner == UNION {cut(o) : o \in {w \in whole : w.cls = "FormattedValue"}}
        deep  == {new_node("Module", <<<<"body", new_list(<<a, b>>)>>>>) :
                     a \in {w \in whole : w.cls = "FormattedValue"}, b \in inner}
    IN  whole \cup UNION {cut(o) : o \in whole} \cup deep

DynamicObjects ==
    IntObjects \cup AtomObjects \cup FlatContainers \cup NestedTuples \cup NodeObjects

(* ------------------------------- compile ------------------------------- *)
\* what the external compiler backend may answer
BackendOutcomes ==
    { [ok |-> TRUE, code |-> "code"],
      [ok |-> FALSE, diag |-> "'return' outside function"],
      [ok |-> FALSE, diag |-> "invalid expression"] }

\* compile(vm, object, filename, mode): the result, and the typed trees handed
\* to compile_top on the way
\* mutant: a failed validation is swallowed and the backend is run on an
\* empty module
compile_unvalidated(object, filename, outcome) ==
    LET ast == ast_from_object(<<"Node_Module">>, object)
        top == IF ast.ok THEN ast.val
               ELSE TypedNode("Module", DefaultLocation, [body |-> <<>>])
    IN  [result |-> IF outcome.ok THEN [ok |-> TRUE, val |-> outcome.code]
                    ELSE [ok |-> FALSE, err |-> ValueError(<<outcome.diag>>)],
         calls  |-> <<[ast |-> top, filename |-> filename]>>]

compile(object, filename, outcome) ==
    LET ast == ast_from_object(<<"Node_Module">>, object)
    IN  IF ~ast.ok THEN [result |-> [ok |-> FALSE, err |-> ast.err], calls |-> <<>>]
        ELSE [result |-> IF outcome.ok THEN [ok |-> TRUE, val |-> outcome.code]
                         ELSE [ok |-> FALSE, err |-> ValueError(<<outcome.diag>>)],
              calls  |-> <<[ast |-> ast.val, filename |-> filename]>>]

(* ---------------------------- state machines --------------------------- *)
NoResult == [ok |-> FALSE, err |-> TypeError(<<"not run">>), log |-> <<>>]

DictIdle ==
    /\ entries = [d \in 1..NDicts |-> <<>>]
    /\ borrowFlag = [d \in 1..NDicts |-> 0]
    /\ stack = <<>>
    /\ REPR_GUARDS = {}
    /\ root = 0
    /\ output = <<>>
    /\ panicked = "no"

CodecIdle   == pc = "idle" /\ inTy = <<>> /\ inVal = <<>> /\ obj = none /\ res = NoResult
CompileIdle == /\ cPc = "idle" /\ cObject = none /\ cOutcome = [ok |-> TRUE, code |-> "code"]
               /\ cResult = NoResult /\ backendCalls = <<>>

\* a typed value to convert, or a dynamic object to validate against a type
InitCodec ==
    /\ \/ /\ pc = "typed"
          /\ inTy \in TypesUpTo(MaxDepth)
          /\ inVal \in Values(inTy, MaxLen)
          /\ obj = none
       \/ /\ pc = "dynamic"
          /\ inTy \in TypesUpTo(1)
          /\ inVal = <<>>
          /\ obj \in DynamicObjects
    /\ res = NoResult
    /\ CompileIdle
    /\ DictIdle

AstToObject ==
    /\ pc = "typed"
    /\ obj' = ast_to_object(inTy, inVal)
    /\ pc' = "encoded"
    /\ UNCHANGED <<inTy, inVal, res, compileVars, dictVars>>

AstFromObject ==
    /\ pc \in {"encoded", "dynamic"}
    /\ res' = ast_from_object(inTy, obj)
    /\ pc' = IF pc = "encoded" THEN "roundtrip" ELSE "decoded"
    /\ UNCHANGED <<inTy, inVal, obj, compileVars, dictVars>>

NextCodec == AstToObject \/ AstFromObject
SpecCodec == InitCodec /\ [][NextCodec]_vars

InitCompile ==
    /\ cPc = "start"
    /\ cObject \in DynamicObjects
    /\ cOutcome \in BackendOutcomes
    /\ cResult = NoResult
    /\ backendCalls = <<>>
    /\ CodecIdle
    /\ DictIdle

Compile ==
    /\ cPc = "start"
    /\ \E filename \in {"<test>"} :
          LET c == compile(cObject, filename, cOutcome)
          IN  /\ cResult' = c.result
              /\ backendCalls' = backendCalls \o c.calls
    /\ cPc' = "done"
    /\ UNCHANGED <<cObject, cOutcome, codecVars, dictVars>>

NextCompile == Compile
SpecCompile == InitCompile /\ [][NextCompile]_vars


(* ================================ dict ================================= *)
\* A dict's entries are a sequence of <<key, value>> pairs in insertion
\* order.  Keys are strings; "K" is an object whose __hash__, __eq__ and
\* __repr__ are Python code.  A value is an integer, a dict of the heap, or
\* an object whose __repr__ is Python code.
DictIds     == 1..NDicts
IntValue    == [t |-> "int",  id |-> 0]
UserValue   == [t |-> "user", id |-> 0]
DictValue(d) == [t |-> "dict", id |-> d]
IsUserKey(key) == key = "K"

RECURSIVE dict_index(_, _, _)
dict_index(es, key, i) ==
    IF i > Len(es) THEN 0
    ELSE IF es[i][1] = key THEN i ELSE dict_index(es, key, i + 1)

dict_insert(es, key, value) ==
    LET i == dict_index(es, key, 1)
    IN  IF i = 0 THEN Append(es, <<key, value>>) ELSE [es EXCEPT ![i] = <<key, value>>]

dict_delete(es, key) ==
    LET i == dict_index(es, key, 1)
    IN  IF i = 0 THEN es
        ELSE [j \in 1..(Len(es) - 1) |-> IF j < i THEN es[j] ELSE es[j + 1]]

\* RefCell: 0 is unused, n > 0 is n shared borrows, -1 is the exclusive borrow
can_borrow(flag)     == flag >= 0
can_borrow_mut(flag) == flag = 0

Frame(op, d, key, value, pairs, cb) ==
    [op |-> op, d |-> d, key |-> key, value |-> value,
     pairs |-> pairs, i |-> 1, parts |-> <<>>, cb |-> cb]
Top == stack[Len(stack)]
Pop == SubSeq(stack, 1, Len(stack) - 1)
ReadOps  == {"get_item", "contains"}
WriteOps == {"set_item", "delitem"}

\* a call can be made by the program, or by Python code that an operation in
\* progress is running (a key's __hash__ / __eq__, an object's __repr__)
CanCall ==
    /\ panicked = "no"
    /\ Len(stack) < MaxStack
    /\ IF stack = <<>> THEN TRUE ELSE Top.cb

\* `self.entries.borrow().get(vm, &key)` and `.contains(vm, &key)`: the
\* shared borrow lasts while the lookup hashes and compares the key
read_op(op, d, key) ==
    /\ CanCall
    /\ IF ~can_borrow(borrowFlag[d])
       THEN panicked' = "BorrowError" /\ UNCHANGED <<borrowFlag, stack>>
       ELSE IF IsUserKey(key)
       THEN /\ borrowFlag' = [borrowFlag EXCEPT ![d] = @ + 1]
            /\ stack' = Append(stack, Frame(op, d, key, IntValue, <<>>, TRUE))
            /\ UNCHANGED panicked
       ELSE UNCHANGED <<borrowFlag, stack, panicked>>
    /\ UNCHANGED <<entries, REPR_GUARDS, root, output, codecVars, compileVars>>

\* `self.entries.borrow_mut().insert(vm, &key, value)` and `.delete(vm, &key)`:
\* the exclusive borrow lasts while the lookup hashes and compares the key
write_op(op, d, key, value) ==
    /\ CanCall
    /\ IF ~can_borrow_mut(borrowFlag[d])
       THEN panicked' = "BorrowMutError" /\ UNCHANGED <<borrowFlag, stack, entries>>
       ELSE IF IsUserKey(key)
       THEN /\ borrowFlag' = [borrowFlag EXCEPT ![d] = -1]
            /\ stack' = Append(stack, Frame(op, d, key, value, <<>>, TRUE))
            /\ UNCHANGED <<panicked, entries>>
       ELSE /\ entries' = [entries EXCEPT ![d] =
                              IF op = "set_item" THEN dict_insert(@, key, value)
                              ELSE dict_delete(@, key)]
            /\ UNCHANGED <<borrowFlag, stack, panicked>>
    /\ UNCHANGED <<REPR_GUARDS, root, output, codecVars, compileVars>>

\* the dict the program and its Python code call on, the keys they use and
\* the values they store
Targets    == {1}
DictKeys   == {"a", "K"}
DictValues == {UserValue} \cup {DictValue(d) : d \in Targets}

get_item == \E d \in Targets, key \in DictKeys : read_op("get_item", d, key)
contains == \E d \in Targets, key \in DictKeys : read_op("contains", d, key)
set_item == \E d \in Targets, key \in DictKeys, value \in DictValues :
                write_op("set_item", d, key, value)
delitem  == \E d \in Targets, key \in DictKeys : write_op("delitem", d, key, IntValue)

\* the key's Python code returns: the operation finishes and its borrow ends
op_return ==
    /\ panicked = "no"
    /\ stack # <<>>
    /\ Top.op \in ReadOps \cup WriteOps
    /\ IF Top.op \in ReadOps
       THEN /\ borrowFlag' = [borrowFlag EXCEPT ![Top.d] = @ - 1]
            /\ UNCHANGED entries
       ELSE /\ borrowFlag' = [borrowFlag EXCEPT ![Top.d] = 0]
            /\ entries' = [entries EXCEPT ![Top.d] =
                              IF Top.op = "set_item" THEN dict_insert(@, Top.key, Top.value)
                              ELSE dict_delete(@, Top.key)]
    /\ stack' = Pop
    /\ UNCHANGED <<REPR_GUARDS, root, output, panicked, codecVars, compileVars>>

(* -------------------------------- repr --------------------------------- *)
\* ReprGuard::enter: None when the object's repr is in progress
ReprGuard_enter(guards, d) == IF d \in guards THEN [some |-> FALSE] ELSE [some |-> TRUE]

\* mutant: the guard's answer is ignored and every visit renders
repr_always_renders(guards, d) == "render"

\* the branch PyDictRef::repr takes
repr_branch(guards, d) ==
    IF ReprGuard_enter(guards, d).some THEN "render" ELSE "placeholder"

\* a repr frame visits 2 * Len(pairs) slots: key 1, value 1, key 2, value 2, ...
Slots(fr)    == 2 * Len(fr.pairs)
IsKeySlot(fr) == fr.i % 2 = 1
SlotKey(fr)   == fr.pairs[(fr.i + 1) \div 2][1]
SlotValue(fr) == fr.pairs[fr.i \div 2][2]
AtDictSlot(fr) ==
    /\ fr.op = "repr" /\ ~fr.cb /\ fr.i <= Slots(fr)
    /\ ~IsKeySlot(fr) /\ SlotValue(fr).t = "dict"

\* the text a frame has after the repr of its current slot came back as `text`
WithSlot(fr, text) ==
    [fr EXCEPT !.parts = @ \o (IF IsKeySlot(fr)
                               THEN (IF fr.i > 1 THEN <<", ">> ELSE <<>>) \o text \o <<": ">>
                               ELSE text),
               !.i = @ + 1,
               !.cb = FALSE]

\* the string a finished call hands back reaches its caller
Deliver(stk, text) ==
    IF stk # <<>> /\ stk[Len(stk)].op = "repr" /\ ~stk[Len(stk)].cb
    THEN [stk EXCEPT ![Len(stk)] = WithSlot(@, text)]
    ELSE stk

\* PyDictRef::repr is called on dict d
repr_on(d) ==
    IF repr_branch(REPR_GUARDS, d) = "placeholder"
    THEN /\ stack' = Deliver(stack, <<"{...}">>)
         /\ output' = IF stack = <<>> THEN <<"{...}">> ELSE output
         /\ UNCHANGED <<REPR_GUARDS, panicked>>
    ELSE IF ~can_borrow(borrowFlag[d])
    THEN panicked' = "BorrowError" /\ UNCHANGED <<stack, output, REPR_GUARDS>>
    ELSE /\ REPR_GUARDS' = REPR_GUARDS \cup {d}
         /\ stack' = Append(stack, Frame("repr", d, "", IntValue, entries[d], FALSE))
         /\ UNCHANGED <<output, panicked>>

\* the program, or Python code an operation is running, asks for a dict's repr
repr ==
    /\ CanCall
    /\ stack = <<>> => root = 0
    /\ \E d \in Targets :
          /\ repr_on(d)
          /\ root' = IF stack = <<>> THEN d ELSE root
    /\ UNCHANGED <<entries, borrowFlag, codecVars, compileVars>>

\* vm.to_repr of the current key or value of the dict being displayed
repr_visit ==
    /\ panicked = "no"
    /\ stack # <<>>
    /\ Top.op = "repr" /\ ~Top.cb /\ Top.i <= Slots(Top)
    /\ IF AtDictSlot(Top)
       THEN /\ Len(stack) < MaxStack
            /\ repr_on(SlotValue(Top).id)
       ELSE /\ stack' = [stack EXCEPT ![Len(stack)] =
                   IF IsKeySlot(@)
                   THEN (IF IsUserKey(SlotKey(@)) THEN [@ EXCEPT !.cb = TRUE]
                         ELSE WithSlot(@, <<SlotKey(@)>>))
                   ELSE (IF SlotValue(@).t = "user" THEN [@ EXCEPT !.cb = TRUE]
                         ELSE WithSlot(@, <<"0">>))]
            /\ UNCHANGED <<REPR_GUARDS, output, panicked>>
    /\ UNCHANGED <<entries, borrowFlag, root, codecVars, compileVars>>

\* an object's __repr__ returns to the display that called it
user_repr_return ==
    /\ panicked = "no"
    /\ stack # <<>>
    /\ Top.op = "repr" /\ Top.cb
    /\ stack' = [stack EXCEPT ![Len(stack)] = WithSlot(@, <<"<object>">>)]
    /\ UNCHANGED <<entries, borrowFlag, REPR_GUARDS, root, output, panicked,
                   codecVars, compileVars>>

\* every pair is rendered: the guard is dropped and the string returned
repr_return ==
    /\ panicked = "no"
    /\ stack # <<>>
    /\ Top.op = "repr" /\ ~Top.cb /\ Top.i > Slots(Top)
    /\ LET text == <<"{">> \o Top.parts \o <<"}">>
       IN  /\ stack' = Deliver(Pop, text)
           /\ output' = IF Pop = <<>> THEN text ELSE output
    /\ REPR_GUARDS' = REPR_GUARDS \ {Top.d}
    /\ UNCHANGED <<entries, borrowFlag, root, panicked, codecVars, compileVars>>

\* dicts that hold integers and one another, displayed once
ReprKeys == <<"b", "a">>
Heaps ==
    [DictIds -> UNION {[1..n -> {IntValue} \cup {DictValue(d) : d \in DictIds}] :
                          n \in 0..Len(ReprKeys)}]
InitRepr ==
    /\ \E h \in Heaps :
          entries = [d \in DictIds |-> [i \in 1..Len(h[d]) |-> <<ReprKeys[i], h[d][i]>>]]
    /\ borrowFlag = [d \in DictIds |-> 0]
    /\ stack = <<>>
    /\ REPR_GUARDS = {}
    /\ root = 0
    /\ output = <<>>
    /\ panicked = "no"
    /\ CodecIdle
    /\ CompileIdle

NextRepr == repr \/ repr_visit \/ repr_return
SpecRepr == InitRepr /\ [][NextRepr]_vars /\ WF_vars(NextRepr)

\* empty dicts, used and displayed by a program and by the Python code of
\* the keys and values it stores
InitDict == DictIdle /\ CodecIdle /\ CompileIdle

NextDict ==
    \/ get_item \/ contains \/ set_item \/ delitem \/ op_return
    \/ repr \/ repr_visit \/ user_repr_return \/ repr_return
SpecDict == InitDict /\ [][NextDict]_vars

(* ========================= properties: codecs ========================== *)
Range(sq) == {sq[i] : i \in 1..Len(sq)}
Converted == pc \in {"roundtrip", "decoded"}
InvalidConversionFlag == ValueError(<<"invalid conversion flag">>)
UnsupportedConstantType == TypeError(<<"unsupported type for constant">>)

\* the typed value with every source location replaced by the default one
RECURSIVE erase_location(_, _)
erase_location(ty, val) ==
    LET h == Head(ty)
    IN  CASE h = "Vec"    -> [i \in 1..Len(val) |-> erase_location(Tail(ty), val[i])]
          [] h = "Option" -> IF val.some THEN Present(erase_location(Tail(ty), val.val))
                             ELSE Absent
          [] h = "Box"    -> [boxed |-> erase_location(Tail(ty), val.boxed)]
          [] IsNodeType(h) ->
               LET fs == Fields(KindOf(h))
               IN  TypedNode(val.kind, DefaultLocation,
                       [n \in {fs[i].name : i \in 1..Len(fs)} |->
                           LET i == CHOOSE j \in 1..Len(fs) : fs[j].name = n
                           IN  erase_location(fs[i].ty, val.f[n])])
          [] OTHER -> val

\* some Optional in the tree holds a present value whose dynamic form is the
\* null sentinel
RECURSIVE some_of_null(_, _)
some_of_null(ty, val) ==
    LET h == Head(ty)
    IN  CASE h = "Vec"    -> \E i \in 1..Len(val) : some_of_null(Tail(ty), val[i])
          [] h = "Option" -> /\ val.some
                             /\ \/ is_none(ast_to_object(Tail(ty), val.val))
                                \/ some_of_null(Tail(ty), val.val)
          [] h = "Box"    -> some_of_null(Tail(ty), val.boxed)
          [] IsNodeType(h) ->
               LET fs == Fields(KindOf(h))
               IN  \E i \in 1..Len(fs) : some_of_null(fs[i].ty, val.f[fs[i].name])
          [] OTHER -> FALSE

\* C1 (as stated): every typed tree converted to a dynamic object and back
\* comes back successfully and equal to itself in kind and field values, the
\* source locations aside.
C1_RoundTripAll ==
    pc = "roundtrip" => res.ok /\ res.val = erase_location(inTy, inVal)

\* C1 (amended): the round trip restores every typed tree in which no Optional
\* holds a present value whose dynamic form is the null sentinel; a tree that
\* holds one still converts, but does not come back equal.
C1_RoundTrip ==
    pc = "roundtrip" =>
        /\ res.ok
        /\ (res.val = erase_location(inTy, inVal)) <=> ~some_of_null(inTy, inVal)

C1_Witness ==
    /\ pc = "roundtrip"
    /\ inTy = <<"Node_Module">>
    /\ Len(inVal.f.body) = 2
    /\ inVal.f.body[1].location # DefaultLocation
    /\ res.ok
    /\ res.val.f.body[1].location = DefaultLocation
    /\ attrs_index(obj.value[1][2].value[1].value, "lineno", 1) = 3

\* C3: the constant codec classifies by runtime class: an integer-family
\* object is Bool(value != 0) exactly when its class is the boolean class and
\* Int(value) otherwise; float, complex, text, bytes, tuple, None and Ellipsis
\* objects give their own variant; any other class fails with "unsupported
\* type for constant".
C3_ConstantClassification ==
    (Converted /\ inTy = <<"Constant">>) =>
        CASE obj.payload = "PyInt" ->
                /\ res.ok
                /\ (res.val.k = "Bool") <=> (obj.cls = "bool")
                /\ res.val.k \in {"Bool", "Int"}
                /\ res.val.k = "Bool" => res.val.v = ~is_zero(obj.value)
                /\ res.val.k = "Int" => res.val.v = obj.value
          [] obj.payload = "PyFloat"    -> res.ok /\ res.val = Tagged("Float", obj.value)
          [] obj.payload = "PyComplex"  ->
                res.ok /\ res.val = [k |-> "Complex", real |-> obj.value[1],
                                                      imag |-> obj.value[2]]
          [] obj.payload = "PyStr"      -> res.ok /\ res.val = Tagged("Str", obj.value)
          [] obj.payload = "PyBytes"    -> res.ok /\ res.val = Tagged("Bytes", obj.value)
          [] obj.payload = "PyTuple"    -> res.ok => res.val.k = "Tuple"
          [] obj.payload = "PyNone"     -> res.ok /\ res.val = [k |-> "None"]
          [] obj.payload = "PyEllipsis" -> res.ok /\ res.val = [k |-> "Ellipsis"]
          [] OTHER -> ~res.ok /\ res.err = UnsupportedConstantType

C3_Witness ==
    /\ pc = "decoded"
    /\ inTy = <<"Constant">>
    /\ obj = Object("IntEnum", "PyInt", Big(0, 1))
    /\ res.ok
    /\ res.val = Tagged("Int", Big(0, 1))

IsOrdinal(b) == \E f \in ConversionFlags : b = Big(0, ConversionFlag_as_u8(f))

\* C5 (as stated): for every integer the conversion-flag codec fails with
\* "invalid conversion flag" unless the integer is a recognised ordinal, and
\* then returns the variant of that ordinal; every variant round-trips.
C5_FlagEveryInteger ==
    /\ (pc = "decoded" /\ inTy = <<"ConversionFlag">> /\ obj.payload = "PyInt") =>
          IF IsOrdinal(obj.value)
          THEN res.ok /\ ConversionFlag_as_u8(res.val) = obj.value.lo
          ELSE ~res.ok /\ res.err = InvalidConversionFlag
    /\ (pc = "roundtrip" /\ inTy = <<"ConversionFlag">>) =>
          /\ obj = new_int(Big(0, ConversionFlag_as_u8(inVal)))
          /\ res.ok /\ res.val = inVal

\* C5 (amended): for every integer that fits in 32 bits the conversion-flag
\* codec fails with "invalid conversion flag" unless the integer is a
\* recognised ordinal, and then returns the variant of that ordinal; an integer
\* outside the 32-bit range fails with the integer conversion's overflow
\* error instead; every variant round-trips.
C5_FlagI32 ==
    /\ (pc = "decoded" /\ inTy = <<"ConversionFlag">> /\ obj.payload = "PyInt") =>
          IF ~fits_i32(obj.value)
          THEN ~res.ok /\ res.err.exc = "OverflowError"
          ELSE IF IsOrdinal(obj.value)
          THEN res.ok /\ ConversionFlag_as_u8(res.val) = obj.value.lo
          ELSE ~res.ok /\ res.err = InvalidConversionFlag
    /\ (pc = "roundtrip" /\ inTy = <<"ConversionFlag">>) =>
          /\ obj = new_int(Big(0, ConversionFlag_as_u8(inVal)))
          /\ res.ok /\ res.val = inVal

C5_Witness ==
    /\ pc = "decoded"
    /\ inTy = <<"ConversionFlag">>
    /\ obj = new_int(Big(0, 116))
    /\ res.err = InvalidConversionFlag

\* C9 (as stated): the boolean codec emits integer 0 or 1, and reads every
\* integer, of whatever class and magnitude, as true when nonzero and false
\* when zero.
C9_BoolEveryInteger ==
    /\ (pc = "decoded" /\ inTy = <<"bool">> /\ obj.payload = "PyInt") =>
          res.ok /\ res.val = ~is_zero(obj.value)
    /\ (pc \in {"encoded", "roundtrip"} /\ inTy = <<"bool">>) =>
          obj = new_int(Big(0, IF inVal THEN 1 ELSE 0))

\* C9 (amended): the boolean codec emits integer 0 or 1, and reads every
\* integer that fits in 32 bits, of whatever class, as true when nonzero and
\* false when zero; an integer outside the 32-bit range fails with the integer
\* conversion's overflow error.
C9_BoolI32 ==
    /\ (pc = "decoded" /\ inTy = <<"bool">> /\ obj.payload = "PyInt") =>
          IF fits_i32(obj.value)
          THEN res.ok /\ res.val = ~is_zero(obj.value)
          ELSE ~res.ok /\ res.err.exc = "OverflowError"
    /\ (pc \in {"encoded", "roundtrip"} /\ inTy = <<"bool">>) =>
          obj = new_int(Big(0, IF inVal THEN 1 ELSE 0))

C9_Witness ==
    /\ pc = "decoded"
    /\ inTy = <<"bool">>
    /\ obj = Object("int", "PyInt", Big(I32HiLimit - 1, 256))
    /\ res.ok /\ res.val = TRUE

\* the logs of converting the first n elements, one after the other
RECURSIVE element_logs(_, _, _)
element_logs(ty, es, n) ==
    IF n = 0 THEN <<>>
    ELSE element_logs(ty, es, n - 1) \o ast_from_object(ty, es[n]).log

IsSequenceCase ==
    /\ Converted
    /\ \/ Head(inTy) = "Vec" /\ obj.payload \in {"PyList", "PyTuple"}
       \/ inTy = <<"Constant">> /\ obj.payload = "PyTuple"

\* C8: a Sequence, and a Tuple constant, are converted element by element in
\* order: when every element converts the result has the elements' results in
\* the same order; otherwise the error is the first failing element's error,
\* unchanged, no later element is converted and no partial result is returned.
C8_SequenceFailFast ==
    IsSequenceCase =>
        LET elemTy == IF Head(inTy) = "Vec" THEN Tail(inTy) ELSE inTy
            es     == obj.value
            r(i)   == ast_from_object(elemTy, es[i])
            fails  == {i \in 1..Len(es) : ~r(i).ok}
        IN  IF fails = {}
            THEN /\ res.ok
                 /\ LET vals == IF Head(inTy) = "Vec" THEN res.val ELSE res.val.v
                    IN  /\ Len(vals) = Len(es)
                        /\ \A i \in 1..Len(es) : vals[i] = r(i).val
                 /\ res.log = <<<<inTy, obj>>>> \o element_logs(elemTy, es, Len(es))
            ELSE LET first == CHOOSE i \in fails : \A j \in fails : i <= j
                 IN  /\ ~res.ok
                     /\ res.err = r(first).err
                     /\ DOMAIN res = {"ok", "err", "log"}
                     /\ res.log = <<<<inTy, obj>>>> \o element_logs(elemTy, es, first)

C8_Witness ==
    /\ pc = "decoded"
    /\ inTy = <<"Vec", "ConversionFlag">>
    /\ obj = new_list(<<new_int(Big(0, 97)), new_int(Wide)>>)
    /\ ~res.ok
    /\ res.err.exc = "OverflowError"
    /\ Len(res.log) = 3

\* C10: through the Optional combinator an absent value and a present None
\* constant both become the null sentinel, the null sentinel converts back to
\* absent without the inner codec being invoked on it, and any other object
\* converts to Some of the inner codec's result for that object.
C10_OptionalNull ==
    /\ (pc \in {"encoded", "roundtrip"} /\ Head(inTy) = "Option") =>
          /\ ~inVal.some => obj = none
          /\ (inVal.some /\ Tail(inTy) = <<"Constant">> /\ inVal.val = [k |-> "None"])
                => obj = none
          /\ inVal.some => obj = ast_to_object(Tail(inTy), inVal.val)
    /\ (Converted /\ Head(inTy) = "Option") =>
          IF is_none(obj) THEN res = Ok(Absent, <<<<inTy, obj>>>>)
          ELSE LET r == ast_from_object(Tail(inTy), obj)
               IN  /\ res.ok = r.ok
                   /\ res.ok => res.val = Present(r.val)
                   /\ ~res.ok => res.err = r.err
                   /\ res.log = <<<<inTy, obj>>>> \o r.log
    /\ Converted =>
          \A i \in 1..Len(res.log) :
              (Head(res.log[i][1]) = "Option" /\ is_none(res.log[i][2])) =>
                  \/ i = Len(res.log)
                  \/ res.log[i + 1] # <<Tail(res.log[i][1]), none>>

C10_Witness ==
    /\ pc = "roundtrip"
    /\ inTy = <<"Option", "Constant">>
    /\ inVal = Present([k |-> "None"])
    /\ obj = none
    /\ res = Ok(Absent, <<<<inTy, none>>>>)

\* C2: when a declared required field is absent from the object's attribute
\* store, from-dynamic fails with an error that names the missing field and
\* the node kind being converted.
C2_MissingFieldNamesKind ==
    (/\ pc = "decoded"
     /\ Len(inTy) = 1 /\ IsNodeType(Head(inTy))
     /\ has_dict(obj)
     /\ attrs_index(obj.value, Fields(KindOf(Head(inTy)))[1].name, 1) = 0) =>
        /\ ~res.ok
        /\ Fields(KindOf(Head(inTy)))[1].name \in Range(res.err.msg)
        /\ KindOf(Head(inTy)) \in Range(res.err.msg)

(* ========================= properties: compile ========================= *)
\* C4: compile validates the whole object graph first: a validation failure
\* is the result and the backend is not called; otherwise the backend is
\* called once, with the converted tree, and its failure comes back as an
\* error value carrying its diagnostic text.
C4_ValidateBeforeBackend ==
    cPc = "done" =>
        LET v == ast_from_object(<<"Node_Module">>, cObject)
        IN  IF ~v.ok
            THEN /\ cResult = [ok |-> FALSE, err |-> v.err]
                 /\ backendCalls = <<>>
            ELSE /\ Len(backendCalls) = 1
                 /\ backendCalls[1].ast = v.val
                 /\ cResult.ok = cOutcome.ok
                 /\ ~cOutcome.ok => cResult.err = ValueError(<<cOutcome.diag>>)

C4_Witness ==
    /\ cPc = "done"
    /\ cObject.cls = "Module"
    /\ attrs_index(cObject.value, "body", 1) = 1
    /\ Len(cObject.value[1][2].value) = 2
    /\ ~cResult.ok
    /\ cResult.err.exc = "AttributeError"
    /\ backendCalls = <<>>

(* ========================== properties: dict =========================== *)
\* the display of dict d while the displays of the dicts in `active` are in
\* progress: a dict in progress is the placeholder, any other dict shows its
\* pairs in insertion order
RECURSIVE ExpectedRepr(_, _), ExpectedPairs(_, _, _)
ExpectedRepr(d, active) ==
    IF d \in active THEN <<"{...}">>
    ELSE <<"{">> \o ExpectedPairs(entries[d], 1, active \cup {d}) \o <<"}">>
ExpectedPairs(es, i, active) ==
    IF i > Len(es) THEN <<>>
    ELSE (IF i > 1 THEN <<", ">> ELSE <<>>)
         \o <<es[i][1], ": ">>
         \o (IF es[i][2].t = "dict" THEN ExpectedRepr(es[i][2].id, active) ELSE <<"0">>)
         \o ExpectedPairs(es, i + 1, active)

ReprDone ==
    /\ root # 0
    /\ stack = <<>>
    /\ REPR_GUARDS = {}
    /\ output = ExpectedRepr(root, {})

\* C6: the display of a dict that is reachable from its own values ends, and
\* its result shows every pair of the outermost dict in insertion order with
\* the placeholder "{...}" wherever a dict whose display is in progress is
\* visited again.
C6_CyclicReprTerminates == <>[]ReprDone

C6_Witness ==
    /\ ReprDone
    /\ Len(entries[1]) = 2
    /\ entries[1][2][2] = DictValue(2)
    /\ Len(entries[2]) = 2
    /\ entries[2][1][2] = DictValue(1)
    /\ entries[2][2][2] = DictValue(2)
    /\ output = <<"{", "b", ": ", "0", ", ", "a", ": ",
                  "{", "b", ": ", "{...}", ", ", "a", ": ", "{...}", "}", "}">>

\* C7: no dict operation holds its borrow of the entries while Python code
\* that can call back into the same dict runs, so no call made from such
\* code ends in a borrow conflict.
C7_NoBorrowConflict == panicked \notin {"BorrowError", "BorrowMutError"}

====
